---------------------------- MODULE Spec2Model ----------------------------
(***************************************************************************)
(* A model of runtime/js_compat.py, the JavaScript compatibility runtime   *)
(* that transpiled code calls into.                                        *)
(*                                                                         *)
(* Values are the Python values the helpers receive.  Each is a record     *)
(* whose field t is the name of its Python type:                           *)
(*   None          [t |-> "NoneType"]                                      *)
(*   JSUndefined   [t |-> "_JSUndefined"]   (the singleton)                *)
(*   bool          [t |-> "bool",  v |-> TRUE / FALSE]                     *)
(*   int           [t |-> "int",   v |-> n]                                *)
(*   float         [t |-> "float", k, n, d]  k is "nan", "inf", "ninf",    *)
(*                 "nzero" (-0.0), "fin" (the binary64 n/d, d a power of   *)
(*                 two, in lowest terms) or "big" (any other binary64:     *)
(*                 fields neg, m, e for (-1)^neg * m * 2^e, m odd)         *)
(*   str           [t |-> "str",   s |-> sequence of one-character strings]*)
(*   list, dict    [t |-> "list" / "dict", ref |-> index into heap]        *)
(*   function      [t |-> "function", name |-> f]    (an opaque identity)  *)
(* An exception leaving a helper is [t |-> "raise", exc |-> class name].   *)
(* A compiled pattern is [t |-> "Pattern", pattern, flags], the generator  *)
(* object that js_for_in_keys returns is [t |-> "generator"].              *)
(*                                                                         *)
(* heap holds the lists and dicts, a, b and third the operands of the last *)
(* call, op its name and res what it returned or raised; gen is the frame  *)
(* of the generator made last and out the keys it has yielded.  frames      *)
(* holds, for each thread that is inside js_array_pop, where it stands.    *)
(***************************************************************************)
EXTENDS Integers, Sequences, FiniteSets, TLC

VARIABLES heap, a, b, third, op, res, gen, out, frames

vars == <<heap, a, b, third, op, res, gen, out, frames>>

\* ------------------------------------------------------------------ bounds

\* ints range over -MaxInt..MaxInt, finite floats over the halves in that range
MaxInt == 2

\* lists on the heap hold at most MaxLen elements
MaxLen == 1

\* the arrays that are deleted from and enumerated have at most MaxSlots slots
MaxSlots == 3

\* a flags string has at most MaxFlags characters
MaxFlags == 2

\* the strings indexed and cut have at most MaxStr characters
MaxStr == 3

\* the threads that are inside js_array_pop at once
MaxThreads == 2

\* ------------------------------------------------------------------ values

None == [t |-> "NoneType"]

JSUndefined == [t |-> "_JSUndefined"]

MkBool(v) == [t |-> "bool", v |-> v]

MkInt(v) == [t |-> "int", v |-> v]

MkStr(s) == [t |-> "str", s |-> s]

Fin(n, d) == [t |-> "float", k |-> "fin", n |-> n, d |-> d]

NaN == [t |-> "float", k |-> "nan", n |-> 0, d |-> 1]

Inf == [t |-> "float", k |-> "inf", n |-> 0, d |-> 1]

NegInf == [t |-> "float", k |-> "ninf", n |-> 0, d |-> 1]

NegZero == [t |-> "float", k |-> "nzero", n |-> 0, d |-> 1]

Raise(exc) == [t |-> "raise", exc |-> exc]

Abs(n) == IF n < 0 THEN -n ELSE n

RECURSIVE GCD(_, _)
GCD(m, n) == IF n = 0 THEN m ELSE GCD(n, m % n)

\* the float n/d (d # 0) in lowest terms with a positive denominator
Norm(n, d) ==
    LET g == GCD(Abs(n), Abs(d))
        s == IF d < 0 THEN -1 ELSE 1
    IN Fin((s * n) \div g, (s * d) \div g)

\* ----------------------------------------------------------------- binding

\* F applied to values computed once: a local name for each of them
Let1(v, F(_)) == F(v)

Let2(v, w, F(_, _)) == F(v, w)

Let3(u, v, w, F(_, _, _)) == F(u, v, w)

\* ------------------------------------------------------ unbounded naturals

\* A natural number that may exceed the model checker's integers is the
\* sequence of its digits in base LimbBase, least significant first, without
\* leading zeros; 0 is <<>>.
LimbBits == 15

LimbBase == 2 ^ LimbBits

Pow2(k) == 2 ^ k

RECURSIVE BTrim(_)
BTrim(x) ==
    IF x # <<>> /\ x[Len(x)] = 0 THEN BTrim(SubSeq(x, 1, Len(x) - 1)) ELSE x

RECURSIVE BFromInt(_)
BFromInt(n) ==
    IF n = 0 THEN <<>> ELSE <<n % LimbBase>> \o BFromInt(n \div LimbBase)

RECURSIVE BToInt(_)
BToInt(x) == IF x = <<>> THEN 0 ELSE x[1] + LimbBase * BToInt(Tail(x))

BLimb(x, i) == IF i <= Len(x) THEN x[i] ELSE 0

RECURSIVE BAddFrom(_, _, _, _)
BAddFrom(x, y, i, c) ==
    IF i > Len(x) /\ i > Len(y) THEN (IF c = 0 THEN <<>> ELSE <<c>>)
    ELSE LET s == BLimb(x, i) + BLimb(y, i) + c
         IN <<s % LimbBase>> \o BAddFrom(x, y, i + 1, s \div LimbBase)

BAdd(x, y) == BAddFrom(x, y, 1, 0)

RECURSIVE BSubFrom(_, _, _, _)
BSubFrom(x, y, i, c) ==
    IF i > Len(x) THEN <<>>
    ELSE LET s == x[i] - BLimb(y, i) - c
         IN <<s % LimbBase>> \o BSubFrom(x, y, i + 1, IF s < 0 THEN 1 ELSE 0)

\* x - y for x >= y
BSub(x, y) == BTrim(BSubFrom(x, y, 1, 0))

RECURSIVE BCmpAt(_, _, _)
BCmpAt(x, y, i) ==
    IF i = 0 THEN 0
    ELSE IF x[i] # y[i] THEN (IF x[i] < y[i] THEN -1 ELSE 1)
    ELSE BCmpAt(x, y, i - 1)

\* -1, 0 or 1 as x is below, equal to or above y
BCmp(x, y) ==
    IF Len(x) # Len(y) THEN (IF Len(x) < Len(y) THEN -1 ELSE 1)
    ELSE BCmpAt(x, y, Len(x))

RECURSIVE BMulSmallFrom(_, _, _, _)
BMulSmallFrom(x, k, i, c) ==
    IF i > Len(x) THEN (IF c = 0 THEN <<>> ELSE <<c>>)
    ELSE LET p == x[i] * k + c
         IN <<p % LimbBase>> \o BMulSmallFrom(x, k, i + 1, p \div LimbBase)

\* x * k for one digit k
BMulSmall(x, k) == BTrim(BMulSmallFrom(x, k, 1, 0))

RECURSIVE BMul(_, _)
BMul(x, y) ==
    IF x = <<>> \/ y = <<>> THEN <<>>
    ELSE LET r == BMul(x, Tail(y))
         IN BAdd(BMulSmall(x, y[1]), IF r = <<>> THEN <<>> ELSE <<0>> \o r)

\* x * 2^k and x \div 2^k
BShl(x, k) ==
    IF x = <<>> THEN <<>>
    ELSE [i \in 1..(k \div LimbBits) |-> 0] \o BMulSmall(x, Pow2(k % LimbBits))

BShr(x, k) ==
    Let2(k % LimbBits,
         IF k \div LimbBits >= Len(x) THEN <<>>
         ELSE SubSeq(x, k \div LimbBits + 1, Len(x)), LAMBDA r, y :
         BTrim([i \in 1..Len(y) |->
                  (y[i] \div Pow2(r)) + (BLimb(y, i + 1) % Pow2(r)) * Pow2(LimbBits - r)]))

RECURSIVE BitLenInt(_)
BitLenInt(n) == IF n = 0 THEN 0 ELSE 1 + BitLenInt(n \div 2)

\* the number of binary digits of x
BBitLen(x) ==
    IF x = <<>> THEN 0 ELSE LimbBits * (Len(x) - 1) + BitLenInt(x[Len(x)])

\* binary digit i of x, digit 0 the lowest
BBit(x, i) == (BLimb(x, i \div LimbBits + 1) \div Pow2(i % LimbBits)) % 2

\* the lowest k binary digits of x are all zero
BLowZero(x, k) == BShl(BShr(x, k), k) = x

\* the number of zero binary digits below the lowest one of x # 0
RECURSIVE BTrailZeros(_)
BTrailZeros(x) ==
    IF x[1] = 0 THEN LimbBits + BTrailZeros(Tail(x))
    ELSE IF x[1] % 2 = 0 THEN 1 + BTrailZeros(<<x[1] \div 2>>)
    ELSE 0

\* the largest digit n with y * n <= x, found by bisection from lo upward; the
\* tests on n and (below) on the remainder hold by construction
RECURSIVE BDigit(_, _, _, _)
BDigit(x, y, lo, k) ==
    IF k = 0 THEN lo
    ELSE Let1(IF BCmp(BMulSmall(y, lo + k), x) <= 0 THEN lo + k ELSE lo,
              LAMBDA n : IF n < LimbBase THEN BDigit(x, y, n, k \div 2) ELSE lo)

\* long division, digit i of x downward: <<quotient, remainder>>
RECURSIVE BDivStep(_, _, _, _, _)
BDivStep(x, y, i, q, r) ==
    IF i = 0 THEN <<BTrim(q), r>>
    ELSE Let1(BTrim(<<x[i]>> \o r), LAMBDA r2 :
         Let1(BDigit(r2, y, 0, LimbBase \div 2), LAMBDA d :
         Let1(BSub(r2, BMulSmall(y, d)), LAMBDA r3 :
              IF BCmp(r3, y) < 0 THEN BDivStep(x, y, i - 1, <<d>> \o q, r3)
              ELSE <<>>)))

BDivMod(x, y) == BDivStep(x, y, Len(x), <<>>, <<>>)

\* ------------------------------------------------- binary64 arithmetic

\* A Python float is an IEEE-754 binary64: a finite one is (-1)^neg * m * 2^e
\* with m below 2^MantDig.  (The exponent is not bounded here: no value of
\* the model comes near the largest or the smallest binary64.)
MantDig == 53

D(neg, m, e) == [neg |-> neg, m |-> m, e |-> e]

\* m * 2^e (and, if sticky, a little more) rounded to MantDig digits, ties to
\* even: with k digits too many, the first dropped digit decides, then the
\* rest, then the parity of what is kept
Round(neg, m, e, sticky) ==
    Let1(BBitLen(m) - MantDig, LAMBDA k :
        IF k <= 0 THEN D(neg, m, e)
        ELSE Let1(BShr(m, k), LAMBDA q :
                 IF /\ BBit(m, k - 1) = 1
                    /\ sticky \/ ~BLowZero(m, k - 1) \/ BBit(q, 0) = 1
                 THEN D(neg, BAdd(q, <<1>>), e + k)
                 ELSE D(neg, q, e + k)))

\* x + y: the digits aligned at the lower exponent e, then added or, for
\* opposite signs, the smaller taken from the larger (an exact zero is +0)
DAdd(x, y) ==
    Let1(IF x.e < y.e THEN x.e ELSE y.e, LAMBDA e :
    Let2(BShl(x.m, x.e - e), BShl(y.m, y.e - e), LAMBDA mx, my :
    Let1(BCmp(mx, my), LAMBDA c :
        Round(IF x.neg = y.neg \/ c > 0 THEN x.neg ELSE IF c < 0 THEN y.neg ELSE FALSE,
              IF x.neg = y.neg THEN BAdd(mx, my)
              ELSE IF c >= 0 THEN BSub(mx, my) ELSE BSub(my, mx),
              e, FALSE))))

DSub(x, y) == DAdd(x, D(~y.neg, y.m, y.e))

DMul(x, y) == Round(x.neg # y.neg, BMul(x.m, y.m), x.e + y.e, FALSE)

\* x / y for y # 0: x shifted by s for MantDig + 2 quotient digits at least,
\* the remainder being the sticky part
DDiv(x, y) ==
    IF x.m = <<>> THEN D(x.neg # y.neg, <<>>, 0)
    ELSE Let1(IF MantDig + 2 + BBitLen(y.m) > BBitLen(x.m)
              THEN MantDig + 2 + BBitLen(y.m) - BBitLen(x.m) ELSE 0, LAMBDA s :
         Let1(BDivMod(BShl(x.m, s), y.m), LAMBDA qr :
              Round(x.neg # y.neg, qr[1], x.e - y.e - s, qr[2] # <<>>)))

RECURSIVE Log2(_)
Log2(d) == IF d = 1 THEN 0 ELSE 1 + Log2(d \div 2)

\* a finite float that does not fit Fin: (-1)^neg * m * 2^e with m odd
Big(neg, m, e) == [t |-> "float", k |-> "big", neg |-> neg, m |-> m, e |-> e]

\* a finite float as sign, digits and exponent
ToD(f) ==
    IF f.k = "big" THEN D(f.neg, f.m, f.e)
    ELSE IF f.k = "nzero" THEN D(TRUE, <<>>, 0)
    ELSE D(f.n < 0, BFromInt(Abs(f.n)), -Log2(f.d))

\* and back: with m made odd, Fin(n, d) when n and d each fit one digit, Big
\* otherwise
FromD(x) ==
    IF x.m = <<>> THEN (IF x.neg THEN NegZero ELSE Fin(0, 1))
    ELSE Let1(BTrailZeros(x.m), LAMBDA z :
         Let3(BShr(x.m, z),
              IF x.e + z > 0 THEN x.e + z ELSE 0,
              IF x.e + z < 0 THEN -(x.e + z) ELSE 0, LAMBDA m, up, dn :
              IF BBitLen(m) + up <= LimbBits /\ dn <= LimbBits
              THEN Fin((IF x.neg THEN -1 ELSE 1) * BToInt(m) * Pow2(up), Pow2(dn))
              ELSE Big(x.neg, m, x.e + z)))

\* the float nearest to n/d (d > 0), as float() and int / int give it
Dbl(n, d) == FromD(DDiv(D(n < 0, BFromInt(Abs(n)), 0), D(FALSE, BFromInt(d), 0)))

\* ------------------------------------------------- Python's numeric tower

\* isinstance(x, (int, float)): bool is a subclass of int
IsIntOrFloat(x) == x.t \in {"int", "float", "bool"}

\* float(x) of an int, a bool or a float
PyFloat(x) ==
    CASE x.t = "float" -> x
      [] x.t = "int" -> Fin(x.v, 1)
      [] x.t = "bool" -> Fin(IF x.v THEN 1 ELSE 0, 1)

isnan(x) == PyFloat(x).k = "nan"

isinf(x) == PyFloat(x).k \in {"inf", "ninf"}

IsFinite(f) == f.k \in {"fin", "nzero", "big"}

IsZero(f) == f.k = "nzero" \/ (f.k = "fin" /\ f.n = 0)

\* the sign bit of a float that is not NaN
IsNeg(f) ==
    \/ f.k \in {"ninf", "nzero"}
    \/ f.k = "fin" /\ f.n < 0
    \/ f.k = "big" /\ f.neg

\* x == y on two numbers (IEEE: NaN equals nothing, -0.0 equals 0)
NumEq(x, y) ==
    LET f == PyFloat(x)
        g == PyFloat(y)
    IN  /\ f.k # "nan"
        /\ g.k # "nan"
        /\ IF f.k = "big" \/ g.k = "big" THEN f = g
           ELSE IF IsFinite(f) /\ IsFinite(g) THEN f.n * g.d = g.n * f.d
           ELSE f.k = g.k

\* x > 0 and x < 0 on a number
NumGt0(x) ==
    LET f == PyFloat(x)
    IN f.k = "inf" \/ (f.k = "fin" /\ f.n > 0) \/ (f.k = "big" /\ ~f.neg)

NumLt0(x) ==
    LET f == PyFloat(x)
    IN f.k = "ninf" \/ (f.k = "fin" /\ f.n < 0) \/ (f.k = "big" /\ f.neg)

\* -f on a float
PyNeg(f) ==
    IF f.k = "nan" THEN NaN
    ELSE IF f.k = "inf" THEN NegInf
    ELSE IF f.k = "ninf" THEN Inf
    ELSE IF f.k = "nzero" THEN Fin(0, 1)
    ELSE IF f.k = "big" THEN Big(~f.neg, f.m, f.e)
    ELSE IF f.n = 0 THEN NegZero
    ELSE Fin(-f.n, f.d)

\* x + y on two numbers: int + int is an int, anything else a float
PyAdd(x, y) ==
    IF x.t # "float" /\ y.t # "float"
    THEN MkInt(PyFloat(x).n + PyFloat(y).n)
    ELSE LET f == PyFloat(x)
             g == PyFloat(y)
         IN  IF f.k = "nan" \/ g.k = "nan" THEN NaN
             ELSE IF f.k = "inf" THEN (IF g.k = "ninf" THEN NaN ELSE Inf)
             ELSE IF f.k = "ninf" THEN (IF g.k = "inf" THEN NaN ELSE NegInf)
             ELSE IF g.k \in {"inf", "ninf"} THEN g
             ELSE FromD(DAdd(ToD(f), ToD(g)))

\* x - y on two numbers
PySub(x, y) ==
    IF x.t # "float" /\ y.t # "float"
    THEN MkInt(PyFloat(x).n - PyFloat(y).n)
    ELSE LET f == PyFloat(x)
             g == PyFloat(y)
         IN  IF f.k = "nan" \/ g.k = "nan" THEN NaN
             ELSE IF f.k = "inf" THEN (IF g.k = "inf" THEN NaN ELSE Inf)
             ELSE IF f.k = "ninf" THEN (IF g.k = "ninf" THEN NaN ELSE NegInf)
             ELSE IF g.k = "inf" THEN NegInf
             ELSE IF g.k = "ninf" THEN Inf
             ELSE FromD(DSub(ToD(f), ToD(g)))

\* x * y on two numbers
PyMul(x, y) ==
    IF x.t # "float" /\ y.t # "float"
    THEN MkInt(PyFloat(x).n * PyFloat(y).n)
    ELSE LET f == PyFloat(x)
             g == PyFloat(y)
             neg == IsNeg(f) # IsNeg(g)
         IN  IF f.k = "nan" \/ g.k = "nan" THEN NaN
             ELSE IF ~IsFinite(f) \/ ~IsFinite(g)
                  THEN (IF IsZero(f) \/ IsZero(g) THEN NaN
                        ELSE IF neg THEN NegInf ELSE Inf)
             ELSE FromD(DMul(ToD(f), ToD(g)))

\* x / y on two numbers: true division, always a float; a zero divisor raises
PyTrueDiv(x, y) ==
    LET f == PyFloat(x)
        g == PyFloat(y)
        neg == IsNeg(f) # IsNeg(g)
    IN  IF IsZero(g) THEN Raise("ZeroDivisionError")
        ELSE IF f.k = "nan" \/ g.k = "nan" THEN NaN
        ELSE IF ~IsFinite(f)
             THEN (IF ~IsFinite(g) THEN NaN ELSE IF neg THEN NegInf ELSE Inf)
        ELSE IF ~IsFinite(g) THEN (IF neg THEN NegZero ELSE Fin(0, 1))
        ELSE FromD(DDiv(ToD(f), ToD(g)))

\* math.trunc(x) and int(x) of a number: the int toward zero; an int is its own
PyTrunc(x) ==
    IF x.t # "float" THEN MkInt(PyFloat(x).n)
    ELSE IF x.k = "nan" THEN Raise("ValueError")
    ELSE IF ~IsFinite(x) THEN Raise("OverflowError")
    ELSE Let1(ToD(x), LAMBDA d :
         Let1(BToInt(IF d.e >= 0 THEN BShl(d.m, d.e) ELSE BShr(d.m, -d.e)), LAMBDA m :
              MkInt(IF d.neg THEN -m ELSE m)))

\* math.floor(x) of a number: the int toward minus infinity
PyFloor(x) ==
    Let1(PyTrunc(x), LAMBDA t :
        IF t.t = "raise" THEN t
        ELSE IF NumLt0(x) /\ ~NumEq(t, x) THEN MkInt(t.v - 1)
        ELSE t)

\* ------------------------------------------------------------------ strings

\* the text "abc" is <<"a", "b", "c">>
IsSpace(c) == c \in {" ", "\t", "\n"}

IsDigit(c) == c \in {"0", "1", "2", "3", "4", "5", "6", "7", "8", "9"}

DigitVal(c) ==
    CASE c = "0" -> 0 [] c = "1" -> 1 [] c = "2" -> 2 [] c = "3" -> 3
      [] c = "4" -> 4 [] c = "5" -> 5 [] c = "6" -> 6 [] c = "7" -> 7
      [] c = "8" -> 8 [] c = "9" -> 9

DigitChar(n) == <<"0", "1", "2", "3", "4", "5", "6", "7", "8", "9">>[n + 1]

\* c.lower(), on the letters that occur
LowerChar(c) ==
    CASE c = "E" -> "e" [] c = "X" -> "x" [] c = "A" -> "a" [] OTHER -> c

\* s.strip(): leading and trailing whitespace removed
RECURSIVE lstrip(_)
lstrip(s) == IF s # <<>> /\ IsSpace(Head(s)) THEN lstrip(Tail(s)) ELSE s

RECURSIVE rstrip(_)
rstrip(s) ==
    IF s # <<>> /\ IsSpace(s[Len(s)]) THEN rstrip(SubSeq(s, 1, Len(s) - 1)) ELSE s

strip(s) == rstrip(lstrip(s))

\* c in s
Contains(s, c) == \E i \in 1..Len(s) : s[i] = c

\* the first index of s holding a character of C, 0 when there is none
FirstIdx(s, C) ==
    IF \E i \in 1..Len(s) : s[i] \in C
    THEN CHOOSE i \in 1..Len(s) :
            s[i] \in C /\ \A j \in 1..(i - 1) : s[j] \notin C
    ELSE 0

\* a run of decimal digits as int() and float() accept it: underscores may
\* separate digits, one at a time
DigitGroup(s) ==
    /\ s # <<>>
    /\ IsDigit(s[1])
    /\ IsDigit(s[Len(s)])
    /\ \A i \in 1..Len(s) : IsDigit(s[i]) \/ s[i] = "_"
    /\ \A i \in 1..(Len(s) - 1) : ~(s[i] = "_" /\ s[i + 1] = "_")

\* the number a digit group denotes, and how many digits it has
RECURSIVE DigitsValue(_)
DigitsValue(s) ==
    IF s = <<>> THEN 0
    ELSE IF s[Len(s)] = "_" THEN DigitsValue(SubSeq(s, 1, Len(s) - 1))
    ELSE 10 * DigitsValue(SubSeq(s, 1, Len(s) - 1)) + DigitVal(s[Len(s)])

DigitCount(s) == Cardinality({i \in 1..Len(s) : IsDigit(s[i])})

RECURSIVE Pow10(_)
Pow10(k) == IF k = 0 THEN 1 ELSE 10 * Pow10(k - 1)

\* a leading sign split off: <<negative, rest>>
Unsigned(s) == IF s # <<>> /\ s[1] \in {"+", "-"} THEN Tail(s) ELSE s

Negative(s) == s # <<>> /\ s[1] = "-"

\* int(s) on a stripped string: an optional sign and a digit group in base 10
PyIntParse(s) ==
    IF DigitGroup(Unsigned(s))
    THEN MkInt((IF Negative(s) THEN -1 ELSE 1) * DigitsValue(Unsigned(s)))
    ELSE Raise("ValueError")

\* the float written with the digits ip before the point, fp after it and the
\* exponent ex, correctly rounded; negated if neg
FloatOf(ip, fp, ex, neg) ==
    Let3(DigitsValue(ip) * Pow10(DigitCount(fp)) + DigitsValue(fp),
         Pow10(DigitCount(fp)),
         Pow10(DigitsValue(Unsigned(ex))), LAMBDA num, den, scale :
        Let1(Dbl(IF Negative(ex) THEN num ELSE num * scale,
                 IF Negative(ex) THEN den * scale ELSE den), LAMBDA val :
             IF neg THEN PyNeg(val) ELSE val))

\* float(s) on a stripped string: an optional sign, then inf, infinity or nan,
\* or digits with an optional point and an optional exponent
PyFloatParse(s) ==
    Let1(Unsigned(s), LAMBDA body :
    Let1(FirstIdx(body, {"e", "E"}), LAMBDA e :
    Let2(IF e = 0 THEN body ELSE SubSeq(body, 1, e - 1),
         IF e = 0 THEN <<>> ELSE SubSeq(body, e + 1, Len(body)), LAMBDA mant, ex :
    Let1(FirstIdx(mant, {"."}), LAMBDA p :
    Let2(IF p = 0 THEN mant ELSE SubSeq(mant, 1, p - 1),
         IF p = 0 THEN <<>> ELSE SubSeq(mant, p + 1, Len(mant)), LAMBDA ip, fp :
        IF [i \in 1..Len(body) |-> LowerChar(body[i])]
              \in {<<"i", "n", "f">>, <<"i", "n", "f", "i", "n", "i", "t", "y">>}
        THEN (IF Negative(s) THEN NegInf ELSE Inf)
        ELSE IF [i \in 1..Len(body) |-> LowerChar(body[i])] = <<"n", "a", "n">> THEN NaN
        ELSE IF ~(/\ IF p = 0 THEN DigitGroup(ip)
                     ELSE /\ ip = <<>> \/ DigitGroup(ip)
                          /\ fp = <<>> \/ DigitGroup(fp)
                          /\ ip # <<>> \/ fp # <<>>
                  /\ e = 0 \/ DigitGroup(Unsigned(ex)))
             THEN Raise("ValueError")
        ELSE FloatOf(ip, fp, ex, Negative(s)))))))

\* js_to_number: JavaScript ToNumber coercion
js_to_number(x) ==
    IF x = None THEN MkInt(0)
    ELSE IF x = JSUndefined THEN NaN
    ELSE IF x.t = "bool" THEN MkInt(IF x.v THEN 1 ELSE 0)
    ELSE IF IsIntOrFloat(x) THEN x
    ELSE IF x.t = "str" THEN
        Let1(strip(x.s), LAMBDA s :
            IF s = <<>> THEN MkInt(0)
            ELSE Let1(IF Contains(s, ".")
                         \/ Contains([i \in 1..Len(s) |-> LowerChar(s[i])], "e")
                      THEN PyFloatParse(s)
                      ELSE PyIntParse(s), LAMBDA r :
                      IF r.t = "raise" THEN NaN ELSE r))
    ELSE NaN

\* ---------------------------------------------------------- str() and repr()

RECURSIVE NatStr(_)
NatStr(n) ==
    IF n < 10 THEN <<DigitChar(n)>>
    ELSE NatStr(n \div 10) \o <<DigitChar(n % 10)>>

IntStr(n) == IF n < 0 THEN <<"-">> \o NatStr(-n) ELSE NatStr(n)

\* the digits of r/d after the point, at most k of them
RECURSIVE FracDigits(_, _, _)
FracDigits(r, d, k) ==
    IF r = 0 \/ k = 0 THEN <<>>
    ELSE <<DigitChar((10 * r) \div d)>> \o FracDigits((10 * r) % d, d, k - 1)

\* repr of a float of moderate size (no exponent form)
FloatStr(f) ==
    IF f.k = "nan" THEN <<"n", "a", "n">>
    ELSE IF f.k = "inf" THEN <<"i", "n", "f">>
    ELSE IF f.k = "ninf" THEN <<"-", "i", "n", "f">>
    ELSE IF f.k = "nzero" THEN <<"-", "0", ".", "0">>
    ELSE LET m == Abs(f.n)
         IN  (IF f.n < 0 THEN <<"-">> ELSE <<>>)
             \o NatStr(m \div f.d) \o <<".">>
             \o (IF m % f.d = 0 THEN <<"0">> ELSE FracDigits(m % f.d, f.d, 16))

\* repr(x) of a value that is not a container
PyRepr(x) ==
    IF x = None THEN <<"N", "o", "n", "e">>
    ELSE IF x = JSUndefined THEN <<"u", "n", "d", "e", "f", "i", "n", "e", "d">>
    ELSE IF x.t = "bool"
         THEN (IF x.v THEN <<"T", "r", "u", "e">> ELSE <<"F", "a", "l", "s", "e">>)
    ELSE IF x.t = "int" THEN IntStr(x.v)
    ELSE IF x.t = "float" THEN FloatStr(x)
    ELSE IF x.t = "str" THEN <<"'">> \o x.s \o <<"'">>
    ELSE <<"<", "f", "u", "n", "c", "t", "i", "o", "n", " ">> \o <<x.name>> \o <<">">>

\* ", ".join(parts)
RECURSIVE Join(_)
Join(parts) ==
    IF parts = <<>> THEN <<>>
    ELSE IF Len(parts) = 1 THEN parts[1]
    ELSE parts[1] \o <<",", " ">> \o Join(Tail(parts))

\* str(x): the text of a str, the repr of anything else; a list or dict shows
\* the repr of what the heap holds for it
PyStr(x) ==
    IF x.t = "str" THEN x.s
    ELSE IF x.t = "list" THEN
        LET items == heap[x.ref].items
        IN <<"[">> \o Join([i \in 1..Len(items) |-> PyRepr(items[i])]) \o <<"]">>
    ELSE IF x.t = "dict" THEN
        LET c == heap[x.ref]
        IN <<"{">> \o Join([i \in 1..Len(c.keys) |->
                        PyRepr(c.keys[i]) \o <<":", " ">> \o PyRepr(c.vals[i])])
           \o <<"}">>
    ELSE PyRepr(x)

\* ------------------------------------------------------- Python's == and is

\* a is b: None and JSUndefined are singletons, containers and functions are
\* the same object when they are the same reference
PyIs(x, y) ==
    /\ x.t \in {"NoneType", "_JSUndefined", "list", "dict", "function"}
    /\ x = y

\* x == y: numbers by value, strings by text, lists and dicts by content,
\* everything else by identity
PyEq(x, y) ==
    IF IsIntOrFloat(x) /\ IsIntOrFloat(y) THEN NumEq(x, y)
    ELSE IF x.t = "str" /\ y.t = "str" THEN x.s = y.s
    ELSE IF x.t \in {"list", "dict"} /\ x.t = y.t THEN heap[x.ref] = heap[y.ref]
    ELSE PyIs(x, y)

\* ------------------------------------------------------------- the helpers

\* a slip: the host's own truth test, bool(x), under which empty containers
\* and empty strings are false
js_truthy_bool(x) ==
    IF x.t \in {"NoneType", "_JSUndefined"} THEN MkBool(FALSE)
    ELSE IF x.t = "bool" THEN x
    ELSE IF IsIntOrFloat(x) THEN MkBool(~NumEq(x, MkInt(0)))
    ELSE IF x.t = "str" THEN MkBool(x.s # <<>>)
    ELSE IF x.t = "list" THEN MkBool(heap[x.ref].items # <<>>)
    ELSE IF x.t = "dict" THEN MkBool(heap[x.ref].keys # <<>>)
    ELSE MkBool(TRUE)

\* js_truthy: JavaScript truthiness
js_truthy(x) ==
    IF x.t = "float" /\ isnan(x) THEN MkBool(FALSE)
    ELSE IF PyIs(x, JSUndefined) THEN MkBool(FALSE)
    ELSE IF PyIs(x, None) THEN MkBool(FALSE)
    ELSE IF PyEq(x, MkStr(<<>>)) THEN MkBool(FALSE)
    ELSE IF PyEq(x, MkInt(0)) THEN MkBool(FALSE)
    ELSE MkBool(TRUE)

\* a slip: an identity shortcut (a is b, true of one NaN object passed twice)
\* taken before the NaN check
js_strict_eq_shortcut(x, y) ==
    IF x = y THEN MkBool(TRUE)
    ELSE IF x.t = "float" /\ isnan(x) THEN MkBool(FALSE)
    ELSE IF y.t = "float" /\ isnan(y) THEN MkBool(FALSE)
    ELSE IF x.t \in {"int", "float"} /\ y.t \in {"int", "float"}
         THEN MkBool(NumEq(PyFloat(x), PyFloat(y)))
    ELSE IF x.t # y.t THEN MkBool(FALSE)
    ELSE IF x.t \in {"str", "bool"} THEN MkBool(PyEq(x, y))
    ELSE MkBool(PyIs(x, y))

\* a slip: the numeric bucket chosen with isinstance, which lets bool in
js_strict_eq_isinstance(x, y) ==
    IF x.t = "float" /\ isnan(x) THEN MkBool(FALSE)
    ELSE IF y.t = "float" /\ isnan(y) THEN MkBool(FALSE)
    ELSE IF PyIs(x, None) /\ PyIs(y, None) THEN MkBool(TRUE)
    ELSE IF PyIs(x, JSUndefined) /\ PyIs(y, JSUndefined) THEN MkBool(TRUE)
    ELSE IF IsIntOrFloat(x) /\ IsIntOrFloat(y)
         THEN MkBool(NumEq(PyFloat(x), PyFloat(y)))
    ELSE IF x.t # y.t THEN MkBool(FALSE)
    ELSE IF x.t \in {"str", "bool"} THEN MkBool(PyEq(x, y))
    ELSE MkBool(PyIs(x, y))

\* a slip: containers compared with == (by content) instead of is
js_strict_eq_by_content(x, y) ==
    IF x.t = "float" /\ isnan(x) THEN MkBool(FALSE)
    ELSE IF y.t = "float" /\ isnan(y) THEN MkBool(FALSE)
    ELSE IF PyIs(x, None) /\ PyIs(y, None) THEN MkBool(TRUE)
    ELSE IF PyIs(x, JSUndefined) /\ PyIs(y, JSUndefined) THEN MkBool(TRUE)
    ELSE IF x.t \in {"int", "float"} /\ y.t \in {"int", "float"}
         THEN MkBool(NumEq(PyFloat(x), PyFloat(y)))
    ELSE IF x.t # y.t THEN MkBool(FALSE)
    ELSE MkBool(PyEq(x, y))

\* js_strict_eq: JavaScript ===
js_strict_eq(x, y) ==
    IF x.t = "float" /\ isnan(x) THEN MkBool(FALSE)
    ELSE IF y.t = "float" /\ isnan(y) THEN MkBool(FALSE)
    ELSE IF PyIs(x, None) /\ PyIs(y, None) THEN MkBool(TRUE)
    ELSE IF PyIs(x, JSUndefined) /\ PyIs(y, JSUndefined) THEN MkBool(TRUE)
    ELSE IF x.t \in {"int", "float"} /\ y.t \in {"int", "float"}
         THEN MkBool(NumEq(PyFloat(x), PyFloat(y)))
    ELSE IF x.t # y.t THEN MkBool(FALSE)
    ELSE IF x.t \in {"str", "bool"} THEN MkBool(PyEq(x, y))
    ELSE MkBool(PyIs(x, y))

\* js_strict_neq: JavaScript !==
js_strict_neq(x, y) == MkBool(~js_strict_eq(x, y).v)

\* to_js_string, the helper nested in js_add: JavaScript ToString
to_js_string(x) ==
    IF PyIs(x, JSUndefined) THEN <<"u", "n", "d", "e", "f", "i", "n", "e", "d">>
    ELSE IF PyIs(x, None) THEN <<"n", "u", "l", "l">>
    ELSE IF x.t = "bool"
         THEN (IF x.v THEN <<"t", "r", "u", "e">> ELSE <<"f", "a", "l", "s", "e">>)
    ELSE PyStr(x)

\* a slip: concatenation only when both operands are strings
js_add_both(x, y) ==
    IF x.t = "str" /\ y.t = "str"
    THEN MkStr(x.s \o y.s)
    ELSE PyAdd(js_to_number(x), js_to_number(y))

\* js_add: JavaScript +
js_add(x, y) ==
    IF x.t = "str" \/ y.t = "str"
    THEN MkStr(to_js_string(x) \o to_js_string(y))
    ELSE PyAdd(js_to_number(x), js_to_number(y))

\* a slip: the host's division with no zero-divisor policy
js_div_unguarded(x, y) == PyTrueDiv(js_to_number(x), js_to_number(y))

\* js_div: JavaScript /
js_div(x, y) ==
    Let2(js_to_number(x), js_to_number(y), LAMBDA num_a, num_b :
        IF NumEq(num_b, MkInt(0))
        THEN (IF NumGt0(num_a) THEN Inf
              ELSE IF NumLt0(num_a) THEN NegInf
              ELSE NaN)
        ELSE PyTrueDiv(num_a, num_b))

\* js_mod: JavaScript % (the remainder, meant to keep the dividend's sign)
js_mod(x, y) ==
    Let2(js_to_number(x), js_to_number(y), LAMBDA num_a, num_b :
        IF isnan(num_a) \/ isnan(num_b) \/ NumEq(num_b, MkInt(0)) THEN NaN
        ELSE IF isinf(num_a) THEN NaN
        ELSE IF isinf(num_b) THEN num_a
        ELSE PySub(num_a, PyMul(num_b, PyTrunc(PyTrueDiv(num_a, num_b)))))

\* a slip: isinstance(x, (int, float)) tested before isinstance(x, bool), which
\* it includes
js_typeof_int_first(x) ==
    IF PyIs(x, JSUndefined) THEN MkStr(<<"u", "n", "d", "e", "f", "i", "n", "e", "d">>)
    ELSE IF PyIs(x, None) THEN MkStr(<<"o", "b", "j", "e", "c", "t">>)
    ELSE IF IsIntOrFloat(x) THEN MkStr(<<"n", "u", "m", "b", "e", "r">>)
    ELSE IF x.t = "bool" THEN MkStr(<<"b", "o", "o", "l", "e", "a", "n">>)
    ELSE IF x.t = "str" THEN MkStr(<<"s", "t", "r", "i", "n", "g">>)
    ELSE IF x.t \in {"list", "dict"} THEN MkStr(<<"o", "b", "j", "e", "c", "t">>)
    ELSE IF x.t = "function" THEN MkStr(<<"f", "u", "n", "c", "t", "i", "o", "n">>)
    ELSE MkStr(<<"o", "b", "j", "e", "c", "t">>)

\* js_typeof: JavaScript typeof operator
js_typeof(x) ==
    IF PyIs(x, JSUndefined) THEN MkStr(<<"u", "n", "d", "e", "f", "i", "n", "e", "d">>)
    ELSE IF PyIs(x, None) THEN MkStr(<<"o", "b", "j", "e", "c", "t">>)
    ELSE IF x.t = "bool" THEN MkStr(<<"b", "o", "o", "l", "e", "a", "n">>)
    ELSE IF IsIntOrFloat(x) THEN MkStr(<<"n", "u", "m", "b", "e", "r">>)
    ELSE IF x.t = "str" THEN MkStr(<<"s", "t", "r", "i", "n", "g">>)
    ELSE IF x.t \in {"list", "dict"} THEN MkStr(<<"o", "b", "j", "e", "c", "t">>)
    ELSE IF x.t = "function" THEN MkStr(<<"f", "u", "n", "c", "t", "i", "o", "n">>)
    ELSE MkStr(<<"o", "b", "j", "e", "c", "t">>)

\* js_round: Math.round() as int(floor(num + 0.5)), the sum being a float's
js_round(x) ==
    Let1(js_to_number(x), LAMBDA num :
        IF isnan(num) \/ isinf(num) THEN num
        ELSE PyTrunc(PyFloor(PyAdd(num, Fin(1, 2)))))

\* a slip: containers rejected only when both operands are containers
RECURSIVE js_loose_eq_both(_, _)
js_loose_eq_both(x, y) ==
    IF x.t \in {"list", "dict"} /\ y.t \in {"list", "dict"} THEN Raise("TypeError")
    ELSE IF x.t = "float" /\ isnan(x) THEN MkBool(FALSE)
    ELSE IF y.t = "float" /\ isnan(y) THEN MkBool(FALSE)
    ELSE IF (PyIs(x, None) /\ PyIs(y, JSUndefined))
            \/ (PyIs(x, JSUndefined) /\ PyIs(y, None)) THEN MkBool(TRUE)
    ELSE IF x.t = y.t THEN MkBool(PyEq(x, y))
    ELSE IF IsIntOrFloat(x) /\ y.t = "str" THEN MkBool(PyEq(x, js_to_number(y)))
    ELSE IF x.t = "str" /\ IsIntOrFloat(y) THEN MkBool(PyEq(js_to_number(x), y))
    ELSE IF x.t = "bool" THEN js_loose_eq_both(MkInt(IF x.v THEN 1 ELSE 0), y)
    ELSE IF y.t = "bool" THEN js_loose_eq_both(x, MkInt(IF y.v THEN 1 ELSE 0))
    ELSE MkBool(FALSE)

\* a slip: null and undefined coerced with ToNumber like every other operand
js_loose_eq_coerce_null(x, y) ==
    IF x.t \in {"list", "dict"} \/ y.t \in {"list", "dict"} THEN Raise("TypeError")
    ELSE IF x.t = "float" /\ isnan(x) THEN MkBool(FALSE)
    ELSE IF y.t = "float" /\ isnan(y) THEN MkBool(FALSE)
    ELSE IF x.t = y.t THEN MkBool(PyEq(x, y))
    ELSE MkBool(PyEq(js_to_number(x), js_to_number(y)))

\* a slip: a Boolean is converted only when it is the left operand
RECURSIVE js_loose_eq_left(_, _)
js_loose_eq_left(x, y) ==
    IF x.t \in {"list", "dict"} \/ y.t \in {"list", "dict"} THEN Raise("TypeError")
    ELSE IF x.t = "float" /\ isnan(x) THEN MkBool(FALSE)
    ELSE IF y.t = "float" /\ isnan(y) THEN MkBool(FALSE)
    ELSE IF (PyIs(x, None) /\ PyIs(y, JSUndefined))
            \/ (PyIs(x, JSUndefined) /\ PyIs(y, None)) THEN MkBool(TRUE)
    ELSE IF x.t = y.t THEN MkBool(PyEq(x, y))
    ELSE IF IsIntOrFloat(x) /\ y.t = "str" THEN MkBool(PyEq(x, js_to_number(y)))
    ELSE IF x.t = "str" /\ IsIntOrFloat(y) THEN MkBool(PyEq(js_to_number(x), y))
    ELSE IF x.t = "bool" THEN js_loose_eq_left(MkInt(IF x.v THEN 1 ELSE 0), y)
    ELSE MkBool(FALSE)

\* js_loose_eq: JavaScript ==
RECURSIVE js_loose_eq(_, _)
js_loose_eq(x, y) ==
    IF x.t \in {"list", "dict"} \/ y.t \in {"list", "dict"} THEN Raise("TypeError")
    ELSE IF x.t = "float" /\ isnan(x) THEN MkBool(FALSE)
    ELSE IF y.t = "float" /\ isnan(y) THEN MkBool(FALSE)
    ELSE IF (PyIs(x, None) /\ PyIs(y, JSUndefined))
            \/ (PyIs(x, JSUndefined) /\ PyIs(y, None)) THEN MkBool(TRUE)
    ELSE IF x.t = y.t THEN MkBool(PyEq(x, y))
    ELSE IF IsIntOrFloat(x) /\ y.t = "str" THEN MkBool(PyEq(x, js_to_number(y)))
    ELSE IF x.t = "str" /\ IsIntOrFloat(y) THEN MkBool(PyEq(js_to_number(x), y))
    ELSE IF x.t = "bool" THEN js_loose_eq(MkInt(IF x.v THEN 1 ELSE 0), y)
    ELSE IF y.t = "bool" THEN js_loose_eq(x, MkInt(IF y.v THEN 1 ELSE 0))
    ELSE MkBool(FALSE)

\* the number of calls js_loose_eq(x, y) makes to itself before it returns
RECURSIVE js_loose_eq_depth(_, _)
js_loose_eq_depth(x, y) ==
    IF \/ x.t \in {"list", "dict"} \/ y.t \in {"list", "dict"}
       \/ x.t = "float" /\ isnan(x)
       \/ y.t = "float" /\ isnan(y)
       \/ PyIs(x, None) /\ PyIs(y, JSUndefined)
       \/ PyIs(x, JSUndefined) /\ PyIs(y, None)
       \/ x.t = y.t
       \/ IsIntOrFloat(x) /\ y.t = "str"
       \/ x.t = "str" /\ IsIntOrFloat(y) THEN 0
    ELSE IF x.t = "bool" THEN 1 + js_loose_eq_depth(MkInt(IF x.v THEN 1 ELSE 0), y)
    ELSE IF y.t = "bool" THEN 1 + js_loose_eq_depth(x, MkInt(IF y.v THEN 1 ELSE 0))
    ELSE 0

\* js_loose_neq: JavaScript !=
js_loose_neq(x, y) ==
    LET r == js_loose_eq(x, y)
    IN IF r.t = "raise" THEN r ELSE MkBool(~r.v)

\* ----------------------------------------------------- the string helpers

\* ord(ch), on the characters that occur
Ord(ch) == CASE ch = "a" -> 97 [] ch = "b" -> 98 [] ch = "c" -> 99

\* js_char_code_at: String.charCodeAt(); int() of an infinity raises
js_char_code_at(s, i) ==
    Let1(js_to_number(i), LAMBDA i_num :
        IF isnan(i_num) THEN NaN
        ELSE Let1(PyTrunc(i_num), LAMBDA i_int :
                 IF i_int.t = "raise" THEN i_int
                 ELSE IF 0 <= i_int.v /\ i_int.v < Len(s.s)
                      THEN Fin(Ord(s.s[i_int.v + 1]), 1)
                 ELSE NaN))

\* max(0, min(n, len))
Clamp(n, len) == IF n > len THEN len ELSE IF n < 0 THEN 0 ELSE n

\* a bound of js_substring as a number: NaN counts as 0
BoundNum(x) == Let1(js_to_number(x), LAMBDA n : IF isnan(n) THEN MkInt(0) ELSE n)

\* js_substring: String.substring(); int() of an infinity raises
js_substring(s, start, end) ==
    Let2(BoundNum(start),
         IF PyIs(end, None) \/ PyIs(end, JSUndefined) THEN MkInt(Len(s.s)) ELSE BoundNum(end),
         LAMBDA start_num, end_num :
            Let2(PyTrunc(start_num), PyTrunc(end_num), LAMBDA si, ei :
                IF si.t = "raise" THEN si
                ELSE IF ei.t = "raise" THEN ei
                ELSE Let2(Clamp(si.v, Len(s.s)), Clamp(ei.v, Len(s.s)),
                          LAMBDA start_int, end_int :
                            MkStr(IF start_int > end_int
                                  THEN SubSeq(s.s, end_int + 1, start_int)
                                  ELSE SubSeq(s.s, start_int + 1, end_int)))))

\* ------------------------------------------------------- the regex helper

\* s.replace(c, ''): s without the character c
Without(s, c) == SelectSeq(s, LAMBDA x : x # c)

\* the parentheses of a pattern match: what re.compile refuses is, of the
\* patterns here, the unbalanced one
RECURSIVE Balanced(_, _)
Balanced(p, depth) ==
    IF p = <<>> THEN depth = 0
    ELSE IF Head(p) = "(" THEN Balanced(Tail(p), depth + 1)
    ELSE IF Head(p) = ")" THEN depth > 0 /\ Balanced(Tail(p), depth - 1)
    ELSE Balanced(Tail(p), depth)

\* re.compile(pattern, flags) on a str pattern: the compiled pattern, which
\* carries re.UNICODE besides the flags given, or re.error
re_compile(pattern, flags) ==
    IF Balanced(pattern, 0)
    THEN [t |-> "Pattern", pattern |-> pattern, flags |-> flags \cup {"UNICODE"}]
    ELSE Raise("error")

\* compile_js_regex: compile JS regex to Python re pattern
compile_js_regex(pattern, flags_str) ==
    Let1(Without(flags_str.s, "g"), LAMBDA f :
        IF Contains(f, "y") THEN Raise("ValueError")
        ELSE IF Contains(f, "u") THEN Raise("ValueError")
        ELSE re_compile(pattern.s,
                        (IF Contains(f, "i") THEN {"IGNORECASE"} ELSE {})
                            \cup (IF Contains(f, "m") THEN {"MULTILINE"} ELSE {})
                            \cup (IF Contains(f, "s") THEN {"DOTALL"} ELSE {})))

\* ------------------------------------------------- the helpers on the heap

\* s without its i-th element
RemoveAt(s, i) == SubSeq(s, 1, i - 1) \o SubSeq(s, i + 1, Len(s))

\* 0 <= idx < n on a number idx
InRange(idx, n) ==
    Let1(PyFloat(idx), LAMBDA f :
        IF f.k \in {"fin", "nzero"} THEN f.n >= 0 /\ f.n < n * f.d
        ELSE IF f.k = "big"
             THEN /\ ~f.neg
                  /\ IF f.e >= 0 THEN BCmp(BShl(f.m, f.e), BFromInt(n)) < 0
                     ELSE BCmp(f.m, BShl(BFromInt(n), -f.e)) < 0
        ELSE FALSE)

\* the items of a list after js_delete: idx is int(key) of a str and the key
\* itself otherwise; a ValueError of int(), a TypeError of the comparison
\* (idx is no number) or of the assignment (idx is a float) is passed over
js_delete_list(items, key) ==
    Let1(IF key.t = "str" THEN PyIntParse(strip(key.s)) ELSE key, LAMBDA idx :
        IF idx.t = "raise" THEN items
        ELSE IF ~IsIntOrFloat(idx) THEN items
        ELSE IF ~InRange(idx, Len(items)) THEN items
        ELSE IF idx.t = "float" THEN items
        ELSE [items EXCEPT ![PyFloat(idx).n + 1] = JSUndefined])

\* a dict after del d[key], for a key that is in it
js_delete_dict(d, key) ==
    Let1(CHOOSE i \in 1..Len(d.keys) : PyEq(d.keys[i], key), LAMBDA i :
        [d EXCEPT !.keys = RemoveAt(@, i), !.vals = RemoveAt(@, i)])

\* js_delete: what it returns and the heap it leaves; "key in base" hashes
\* the key first, which a list or a dict does not allow
js_delete(base, key) ==
    IF base.t = "dict" THEN
        IF key.t \in {"list", "dict"}
        THEN [res |-> Raise("TypeError"), heap |-> heap]
        ELSE IF \E i \in 1..Len(heap[base.ref].keys) : PyEq(heap[base.ref].keys[i], key)
        THEN [res |-> MkBool(TRUE),
              heap |-> [heap EXCEPT ![base.ref] = js_delete_dict(@, key)]]
        ELSE [res |-> MkBool(TRUE), heap |-> heap]
    ELSE IF base.t = "list" THEN
        [res |-> MkBool(TRUE),
         heap |-> [heap EXCEPT ![base.ref].items = js_delete_list(@, key)]]
    ELSE [res |-> MkBool(TRUE), heap |-> heap]

\* a slip: the host's own "nothing", None, for an empty list
js_array_pop_none(arr) ==
    Let1(heap[arr.ref].items, LAMBDA items :
        IF Len(items) > 0
        THEN [res |-> items[Len(items)],
              heap |-> [heap EXCEPT ![arr.ref].items = SubSeq(items, 1, Len(items) - 1)]]
        ELSE [res |-> None, heap |-> heap])

\* js_array_pop: what it returns and the heap it leaves
js_array_pop(arr) ==
    Let1(heap[arr.ref].items, LAMBDA items :
        IF Len(items) > 0
        THEN [res |-> items[Len(items)],
              heap |-> [heap EXCEPT ![arr.ref].items = SubSeq(items, 1, Len(items) - 1)]]
        ELSE [res |-> JSUndefined, heap |-> heap])

\* js_for_in_keys(obj): a generator, none of whose body has run.  pc is where
\* the frame stands, i the position of the iterator of its loop, used the
\* size a dict had when its iterator was made.
js_for_in_keys(obj) == [pc |-> "start", obj |-> obj, i |-> 0, used |-> 0]

\* the first index from i on whose slot is no hole, as enumerate() reaches
\* it; Len(items) when the list ends first
RECURSIVE NextSlot(_, _)
NextSlot(items, i) ==
    IF i >= Len(items) THEN Len(items)
    ELSE IF ~PyIs(items[i + 1], JSUndefined) THEN i
    ELSE NextSlot(items, i + 1)

\* the generator yields key and is suspended with its iterator at i
Yield(g, key, i) == [gen |-> [g EXCEPT !.pc = "run", !.i = i], res |-> key]

\* the generator ends, returning or with an exception that leaves it
Finish(g, exc) == [gen |-> [g EXCEPT !.pc = "done"], res |-> Raise(exc)]

\* a slip: the holes of a list are enumerated like its other slots
js_for_in_next_holes(g) ==
    IF g.obj.t = "dict" THEN
        Let2(heap[g.obj.ref].keys,
             IF g.pc = "start" THEN Len(heap[g.obj.ref].keys) ELSE g.used,
             LAMBDA keys, used :
                IF Len(keys) # used THEN Finish(g, "RuntimeError")
                ELSE IF g.i < Len(keys)
                     THEN Yield([g EXCEPT !.used = used], MkStr(PyStr(keys[g.i + 1])), g.i + 1)
                ELSE Finish(g, "StopIteration"))
    ELSE IF g.obj.t = "list" THEN
        IF g.i < Len(heap[g.obj.ref].items) THEN Yield(g, MkStr(PyStr(MkInt(g.i))), g.i + 1)
        ELSE Finish(g, "StopIteration")
    ELSE IF g.obj.t = "str" THEN
        IF g.i < Len(g.obj.s) THEN Yield(g, MkStr(PyStr(MkInt(g.i))), g.i + 1)
        ELSE Finish(g, "StopIteration")
    ELSE Finish(g, "StopIteration")

\* next() of the generator g: the body runs to its next yield.  A dict
\* iterator raises RuntimeError when the dict has changed size; a list
\* iterator reads the list as it is now.
js_for_in_next(g) ==
    IF g.obj.t = "dict" THEN
        Let2(heap[g.obj.ref].keys,
             IF g.pc = "start" THEN Len(heap[g.obj.ref].keys) ELSE g.used,
             LAMBDA keys, used :
                IF Len(keys) # used THEN Finish(g, "RuntimeError")
                ELSE IF g.i < Len(keys)
                     THEN Yield([g EXCEPT !.used = used], MkStr(PyStr(keys[g.i + 1])), g.i + 1)
                ELSE Finish(g, "StopIteration"))
    ELSE IF g.obj.t = "list" THEN
        Let2(heap[g.obj.ref].items, NextSlot(heap[g.obj.ref].items, g.i),
             LAMBDA items, j :
                IF j < Len(items) THEN Yield(g, MkStr(PyStr(MkInt(j))), j + 1)
                ELSE Finish(g, "StopIteration"))
    ELSE IF g.obj.t = "str" THEN
        IF g.i < Len(g.obj.s) THEN Yield(g, MkStr(PyStr(MkInt(g.i))), g.i + 1)
        ELSE Finish(g, "StopIteration")
    ELSE Finish(g, "StopIteration")

\* --------------------------------------------------------------- the inputs

Ints == {MkInt(i) : i \in -MaxInt..MaxInt}

Floats == {NaN, Inf, NegInf, NegZero} \cup {Norm(n, 2) : n \in (-2 * MaxInt)..(2 * MaxInt)}

Strs ==
    {MkStr(s) : s \in {<<>>, <<" ">>, <<"0">>, <<"1">>, <<"2">>, <<" ", "1", " ">>,
                        <<"1", ".", "0">>, <<"0", ".", "5">>, <<"-", "1">>,
                        <<"1", "e", "0">>, <<"x">>, <<"0", "x", "1">>,
                        <<"0", "o", "7">>, <<"1", "_", "0">>}}

\* floats that are no multiple of a power of two: the binary64 nearest to n/10
Tenths == {Dbl(n, 10) : n \in {-39, -13, 13, 39}}

\* the float next below 0.5: 0.5 - 2^-54, which is 0.49999999999999994
PredHalf == FromD(DSub(ToD(Fin(1, 2)), D(FALSE, <<1>>, -54)))

Funcs == {[t |-> "function", name |-> f] : f \in {"f", "g"}}

Prims == {None, JSUndefined, MkBool(TRUE), MkBool(FALSE)}
            \cup Ints \cup Floats \cup Strs \cup Funcs

\* what the slots of a list hold
ElemVals == {MkInt(1), JSUndefined}

Lists ==
    {[kind |-> "list", items |-> s] :
        s \in UNION {[1..n -> ElemVals] : n \in 0..MaxLen}}

Dicts ==
    {[kind |-> "dict", keys |-> <<>>, vals |-> <<>>],
     [kind |-> "dict", keys |-> <<MkStr(<<"a">>)>>, vals |-> <<MkInt(1)>>]}

Containers == Lists \cup Dicts

\* the containers the caller has built, in the order it built them; each is
\* held by one of the operands at least
Heaps == UNION {[1..n -> Containers] : n \in 0..2}

Ref(h, i) == [t |-> h[i].kind, ref |-> i]

Values(h) == Prims \cup {Ref(h, i) : i \in 1..Len(h)}

Holds(x, i) == x.t \in {"list", "dict"} /\ x.ref = i

\* no generator has been made
NoGen == [pc |-> "none"]

\* no thread is inside js_array_pop
NoFrames == <<>>

\* ---------------------------------------------------------- the state machine

Init ==
    /\ heap \in Heaps
    /\ a \in Values(heap)
    /\ b \in Values(heap)
    /\ \A i \in 1..Len(heap) : Holds(a, i) \/ Holds(b, i)
    /\ third = None
    /\ op = "init"
    /\ res = None
    /\ gen = NoGen
    /\ out = <<>>
    /\ frames = NoFrames

Call(name, result) ==
    /\ op' = name
    /\ res' = result
    /\ UNCHANGED <<heap, a, b, third, gen, out, frames>>

Truthy == Call("js_truthy", js_truthy(a))

StrictEq == Call("js_strict_eq", js_strict_eq(a, b))

StrictNeq == Call("js_strict_neq", js_strict_neq(a, b))

ToNumber == Call("js_to_number", js_to_number(a))

Add == Call("js_add", js_add(a, b))

Div == Call("js_div", js_div(a, b))

LooseEq == Call("js_loose_eq", js_loose_eq(a, b))

LooseNeq == Call("js_loose_neq", js_loose_neq(a, b))

Typeof == Call("js_typeof", js_typeof(a))

Next ==
    \/ Truthy
    \/ StrictEq
    \/ StrictNeq
    \/ ToNumber
    \/ Add
    \/ Div
    \/ LooseEq
    \/ LooseNeq
    \/ Typeof

Spec == Init /\ [][Next]_vars

\* ------------------------------------------- the arithmetic on Numbers alone

\* both operands are numbers, floats with inexact quotients among them
InitNum ==
    /\ heap = <<>>
    /\ a \in Ints \cup Floats \cup Tenths \cup {PredHalf}
    /\ b \in Ints \cup Floats \cup Tenths
    /\ third = None
    /\ op = "init"
    /\ res = None
    /\ gen = NoGen
    /\ out = <<>>
    /\ frames = NoFrames

Mod == Call("js_mod", js_mod(a, b))

JsRound == Call("js_round", js_round(a))

NextNum ==
    \/ Mod
    \/ JsRound

SpecNum == InitNum /\ [][NextNum]_vars

\* ------------------------------------------------ indexing and cutting strings

\* "", "a", "ab", "abc"
Texts == {MkStr(SubSeq(<<"a", "b", "c", "a", "b", "c">>, 1, n)) : n \in 0..MaxStr}

\* indices and bounds: inside the string, outside it, with a fraction, not
\* finite
Indices ==
    {MkInt(i) : i \in -1..(MaxStr + 1)}
        \cup {NaN, Inf, NegInf, NegZero, Fin(-1, 2), Fin(3, 2)}

InitStr ==
    /\ heap = <<>>
    /\ a \in Texts
    /\ b \in Indices
    /\ third \in Indices \cup {None, JSUndefined}
    /\ op = "init"
    /\ res = None
    /\ gen = NoGen
    /\ out = <<>>
    /\ frames = NoFrames

CharCodeAt == Call("js_char_code_at", js_char_code_at(a, b))

Substring == Call("js_substring", js_substring(a, b, third))

NextStr ==
    \/ CharCodeAt
    \/ Substring

SpecStr == InitStr /\ [][NextStr]_vars

\* ------------------------------------------------------ compiling patterns

Patterns == {MkStr(<<"a", ".", "b">>), MkStr(<<"(">>)}

FlagChars == {"g", "i", "m", "s", "y", "u", "x"}

FlagStrs == {MkStr(s) : s \in UNION {[1..n -> FlagChars] : n \in 0..MaxFlags}}

InitRegex ==
    /\ heap = <<>>
    /\ a \in Patterns
    /\ b \in FlagStrs
    /\ third = None
    /\ op = "init"
    /\ res = None
    /\ gen = NoGen
    /\ out = <<>>
    /\ frames = NoFrames

CompileRegex == Call("compile_js_regex", compile_js_regex(a, b))

NextRegex ==
    \/ CompileRegex

SpecRegex == InitRegex /\ [][NextRegex]_vars

\* ------------------------------------------------ deleting from containers

SlotVals == {MkInt(1), MkInt(2), JSUndefined}

Arrays ==
    {[kind |-> "list", items |-> s] :
        s \in UNION {[1..n -> SlotVals] : n \in 0..MaxSlots}}

Objects ==
    {[kind |-> "dict", keys |-> k, vals |-> [i \in 1..Len(k) |-> MkInt(1)]] :
        k \in {<<>>, <<MkStr(<<"a">>)>>, <<MkStr(<<"a">>), MkStr(<<"b">>)>>,
               <<MkStr(<<"b">>), MkStr(<<"a">>)>>, <<MkInt(1), MkStr(<<"a">>)>>}}

\* what is deleted from and enumerated: the one container and two values
\* that are none
Bases == {Ref(heap, 1), MkStr(<<"a", "b">>), MkInt(5)}

\* the keys of js_delete: of every type, in and out of range
DeleteKeys ==
    {None, JSUndefined, MkBool(TRUE), MkBool(FALSE), NaN, Inf, Fin(1, 1), Fin(1, 2),
     [t |-> "function", name |-> "f"], Ref(heap, 1)}
        \cup {MkInt(i) : i \in -1..MaxSlots}
        \cup {MkStr(s) : s \in {<<>>, <<"1">>, <<" ", "1", " ">>, <<"-", "1">>, <<"9">>,
                                <<"1", ".", "0">>, <<"a">>, <<"x">>}}

InitHeap ==
    /\ heap \in {<<k>> : k \in Arrays \cup Objects}
    /\ a = None
    /\ b = None
    /\ third = None
    /\ op = "init"
    /\ res = None
    /\ gen = NoGen
    /\ out = <<>>
    /\ frames = NoFrames

\* js_delete(base, key) with a key of Keys
DeleteWith(Keys) ==
    \E base \in Bases, key \in Keys :
        Let1(js_delete(base, key), LAMBDA r :
            /\ a' = base
            /\ b' = key
            /\ op' = "js_delete"
            /\ res' = r.res
            /\ heap' = r.heap
            /\ UNCHANGED <<third, gen, out, frames>>)

Delete == DeleteWith(DeleteKeys)

NextDelete ==
    \/ Delete

SpecDelete == InitHeap /\ [][NextDelete]_vars

\* ----------------------------------------------------- enumerating the keys

\* what js_for_in_keys returns
Generator == [t |-> "generator"]

\* the keys deleted while a generator is at work
FewKeys == {MkInt(0), MkInt(1), MkStr(<<"a">>)}

\* js_for_in_keys(obj): the generator is made and nothing else happens.
\* (gen.heap0 is no part of the generator: it records for the properties the
\* heap at the time of the call.)
ForIn ==
    \E obj \in Bases :
        /\ a' = obj
        /\ op' = "js_for_in_keys"
        /\ res' = Generator
        /\ gen' = js_for_in_keys(obj) @@ [heap0 |-> heap]
        /\ out' = <<>>
        /\ UNCHANGED <<heap, b, third, frames>>

\* the caller takes the next key; out is what it has been given so far
ForInNext ==
    /\ gen.pc \in {"start", "run"}
    /\ Let1(js_for_in_next(gen), LAMBDA r :
            /\ op' = "next"
            /\ res' = r.res
            /\ gen' = r.gen
            /\ out' = IF r.res.t = "str" THEN Append(out, r.res) ELSE out
            /\ UNCHANGED <<heap, a, b, third, frames>>)

DeleteDuring == DeleteWith(FewKeys)

ArrayPop ==
    /\ heap[1].kind = "list"
    /\ Let1(js_array_pop(Ref(heap, 1)), LAMBDA r :
            /\ a' = Ref(heap, 1)
            /\ op' = "js_array_pop"
            /\ res' = r.res
            /\ heap' = r.heap
            /\ UNCHANGED <<b, third, gen, out, frames>>)

NextForIn ==
    \/ ForIn
    \/ ForInNext
    \/ DeleteDuring
    \/ ArrayPop

SpecForIn == InitHeap /\ [][NextForIn]_vars

\* ------------------------------------------- js_array_pop from several threads

\* list.pop(): the interpreter runs it in one piece; IndexError on an empty
\* list.  slot is the index the element was taken from, 0 when none was.
list_pop(arr) ==
    Let1(heap[arr.ref].items, LAMBDA items :
        IF Len(items) = 0
        THEN [res |-> Raise("IndexError"), heap |-> heap, slot |-> 0]
        ELSE [res |-> items[Len(items)],
              heap |-> [heap EXCEPT ![arr.ref].items = SubSeq(items, 1, Len(items) - 1)],
              slot |-> Len(items)])

\* threads 1..MaxThreads have each entered js_array_pop(arr), with the one
\* list, and stand before its first line
InitPop ==
    /\ heap \in {<<k>> : k \in Arrays}
    /\ a = Ref(heap, 1)
    /\ b = None
    /\ third = None
    /\ op = "init"
    /\ res = None
    /\ gen = NoGen
    /\ out = <<>>
    /\ frames = [t \in 1..MaxThreads |-> [pc |-> "if", res |-> None, slot |-> 0]]

\* `if len(arr) > 0:` and, when it is false, `return JSUndefined`
PopIf(t) ==
    /\ frames[t].pc = "if"
    /\ IF Len(heap[a.ref].items) > 0
       THEN /\ frames' = [frames EXCEPT ![t].pc = "pop"]
            /\ UNCHANGED <<op, res>>
       ELSE /\ frames' = [frames EXCEPT ![t] = [pc |-> "done", res |-> JSUndefined,
                                                slot |-> 0]]
            /\ op' = "js_array_pop"
            /\ res' = JSUndefined
    /\ UNCHANGED <<heap, a, b, third, gen, out>>

\* `return arr.pop()`: the call returns what list.pop() gave or raises what
\* it raised
PopPop(t) ==
    /\ frames[t].pc = "pop"
    /\ Let1(list_pop(a), LAMBDA r :
            /\ heap' = r.heap
            /\ frames' = [frames EXCEPT ![t] = [pc |-> "done", res |-> r.res,
                                                slot |-> r.slot]]
            /\ op' = "js_array_pop"
            /\ res' = r.res)
    /\ UNCHANGED <<a, b, third, gen, out>>

NextPop ==
    \/ \E t \in DOMAIN frames : PopIf(t)
    \/ \E t \in DOMAIN frames : PopPop(t)

SpecPop == InitPop /\ [][NextPop]_vars

\* ------------------------------------------------------------ the claims

\* the variant of the specification's value model a Python value belongs to
Variant(x) ==
    CASE x.t = "NoneType" -> "Null"
      [] x.t = "_JSUndefined" -> "Undefined"
      [] x.t = "bool" -> "Boolean"
      [] x.t \in {"int", "float"} -> "Number"
      [] x.t = "str" -> "String"
      [] x.t = "dict" -> "Object"
      [] x.t = "list" -> "Array"
      [] x.t = "function" -> "Function"

IsContainer(x) == Variant(x) \in {"Object", "Array"}

IsNaNValue(x) == x.t = "float" /\ x.k = "nan"

\* the numeric value of a Number that is not NaN: "inf", "ninf", the
\* rational <<n, d>> in lowest terms (both zeros are <<0, 1>>), or the sign,
\* digits and exponent of a float beyond those
NumVal(x) ==
    IF x.t = "int" THEN <<"fin", x.v, 1>>
    ELSE IF x.k \in {"inf", "ninf"} THEN <<x.k, 0, 1>>
    ELSE IF x.k = "big" THEN <<"big", x.neg, x.m, x.e>>
    ELSE <<"fin", x.n, x.d>>

IsZeroNumber(x) == Variant(x) = "Number" /\ ~IsNaNValue(x) /\ NumVal(x) = <<"fin", 0, 1>>

SameNumber(x, y) == ~IsNaNValue(x) /\ ~IsNaNValue(y) /\ NumVal(x) = NumVal(y)

True == MkBool(TRUE)

False == MkBool(FALSE)

\* the falsy set of the specification
InFalsySet(x) ==
    \/ Variant(x) \in {"Null", "Undefined"}
    \/ x = False
    \/ IsZeroNumber(x)
    \/ IsNaNValue(x)
    \/ x = MkStr(<<>>)

\* C1: isTruthy(v) is false exactly when v is Null, Undefined, false, a zero
\* Number (int or float, either sign), NaN or the empty String; it is true of
\* every other value, empty Objects and Arrays included.
C1_TruthyExactlyOutsideFalsySet ==
    op = "js_truthy" => res = MkBool(~InFalsySet(a))

C1_EmptyArrayIsTruthy ==
    /\ op = "js_truthy"
    /\ a.t = "list"
    /\ heap[a.ref].items = <<>>
    /\ res = True

\* C2: NaN equals nothing. strictEqual with a NaN operand is false whatever the
\* other operand is (NaN too), and so is looseEqual when the other operand is
\* no container.
C2_NaNEqualsNothing ==
    (IsNaNValue(a) \/ IsNaNValue(b)) =>
        /\ op = "js_strict_eq" => res = False
        /\ (op = "js_loose_eq" /\ ~IsContainer(a) /\ ~IsContainer(b)) => res = False

C2_NaNAgainstItself ==
    /\ op = "js_strict_eq"
    /\ IsNaNValue(a)
    /\ IsNaNValue(b)
    /\ res = False

\* C3: strictEqual is false across variants; inside one variant Numbers that
\* are not NaN compare by numeric value whatever their representation (1 and
\* 1.0 are equal), Strings and Booleans compare by value.
C3_StrictEqByVariant ==
    op = "js_strict_eq" =>
        /\ Variant(a) # Variant(b) => res = False
        /\ (Variant(a) = "Number" /\ Variant(b) = "Number"
                /\ ~IsNaNValue(a) /\ ~IsNaNValue(b))
              => res = MkBool(NumVal(a) = NumVal(b))
        /\ (Variant(a) = "String" /\ Variant(b) = "String") => res = MkBool(a.s = b.s)
        /\ (Variant(a) = "Boolean" /\ Variant(b) = "Boolean") => res = MkBool(a.v = b.v)

C3_IntEqualsItsFloat ==
    /\ op = "js_strict_eq"
    /\ a = MkInt(1)
    /\ b = Fin(1, 1)
    /\ res = True

\* strict equality as the specification states it, rule by rule
StrictEqualRules(x, y) ==
    IF IsNaNValue(x) \/ IsNaNValue(y) THEN FALSE
    ELSE IF Variant(x) # Variant(y) THEN FALSE
    ELSE IF Variant(x) = "Number" THEN NumVal(x) = NumVal(y)
    ELSE x = y

\* C4: on Objects, Arrays and Functions strictEqual is true exactly of one and
\* the same instance, never of two containers with the same content; and
\* strictNotEqual is the negation of strictEqual on all operands.
C4_StrictEqByIdentity ==
    /\ (op = "js_strict_eq"
            /\ Variant(a) \in {"Object", "Array", "Function"}
            /\ Variant(b) \in {"Object", "Array", "Function"})
          => res = MkBool(a = b)
    /\ op = "js_strict_neq" => res = MkBool(~StrictEqualRules(a, b))

C4_TwinArraysDiffer ==
    /\ op = "js_strict_eq"
    /\ a.t = "list"
    /\ b.t = "list"
    /\ a.ref # b.ref
    /\ heap[a.ref] = heap[b.ref]
    /\ res = False

\* C5: looseEqual and looseNotEqual raise the unsupported-operation error
\* whenever an operand is an Object or an Array, whatever the other one is.
C5_LooseEqRejectsContainers ==
    (op \in {"js_loose_eq", "js_loose_neq"} /\ (IsContainer(a) \/ IsContainer(b)))
        => res = Raise("TypeError")

C5_NaNAgainstObjectRaises ==
    /\ op = "js_loose_neq"
    /\ IsNaNValue(a)
    /\ b.t = "dict"
    /\ res = Raise("TypeError")

\* C6: on two Numbers that are not NaN looseEqual is true exactly when they
\* have the same numeric value, whatever their representation.
C6_LooseEqNumbersByValue ==
    (op = "js_loose_eq" /\ Variant(a) = "Number" /\ Variant(b) = "Number"
            /\ ~IsNaNValue(a) /\ ~IsNaNValue(b))
        => res = MkBool(NumVal(a) = NumVal(b))

IsNullish(x) == Variant(x) \in {"Null", "Undefined"}

\* C7: Null and Undefined are loosely equal to each other and to themselves,
\* and to no other value that is not a container, in either order.
C7_NullishLooseEq ==
    (op = "js_loose_eq" /\ ~IsContainer(a) /\ ~IsContainer(b)
            /\ (IsNullish(a) \/ IsNullish(b)))
        => res = MkBool(IsNullish(a) /\ IsNullish(b))

C7_NullIsNotFalse ==
    /\ op = "js_loose_eq"
    /\ a = None
    /\ b = False
    /\ res = False

\* C8: on two different variants among Number, String and Boolean looseEqual
\* is the numeric equality of toNumber of both sides.
C8_LooseEqCoercesToNumber ==
    (op = "js_loose_eq"
            /\ Variant(a) \in {"Number", "String", "Boolean"}
            /\ Variant(b) \in {"Number", "String", "Boolean"}
            /\ Variant(a) # Variant(b))
        => res = MkBool(SameNumber(js_to_number(a), js_to_number(b)))

\* toDisplayString as the specification states it: the four named renderings,
\* a String as it is, the natural text of anything else
Display(x) ==
    CASE Variant(x) = "Undefined" -> <<"u", "n", "d", "e", "f", "i", "n", "e", "d">>
      [] Variant(x) = "Null" -> <<"n", "u", "l", "l">>
      [] Variant(x) = "Boolean" ->
            IF x.v THEN <<"t", "r", "u", "e">> ELSE <<"f", "a", "l", "s", "e">>
      [] Variant(x) = "String" -> x.s
      [] OTHER -> PyStr(x)

\* the finite float r is the exact n/d (d > 0) rounded to MantDig binary
\* digits: r has the sign of n and, written with exactly MantDig digits as
\* m * 2^e, lies within half a unit of its last digit of n/d
Nearest(n, d, r) ==
    LET x == ToD(r)
        sh == MantDig - BBitLen(x.m)
        m == BShl(x.m, sh)
        e == x.e - sh
        up == IF e > 0 THEN e ELSE 0
        dn == IF e < 0 THEN -e ELSE 0
        p == BShl(BMul(m, BFromInt(d)), up)
        q == BShl(BFromInt(Abs(n)), dn)
        diff == IF BCmp(p, q) >= 0 THEN BSub(p, q) ELSE BSub(q, p)
    IN  /\ IsFinite(r)
        /\ IF n = 0 THEN IsZero(r)
           ELSE /\ ~IsZero(r)
                /\ IsNeg(r) = (n < 0)
                /\ sh >= 0
                /\ BCmp(BShl(diff, 1), BShl(BFromInt(d), up)) <= 0

\* r is the IEEE sum of the Numbers p and q
IsSum(p, q, r) ==
    LET f == PyFloat(p)
        g == PyFloat(q)
        h == PyFloat(r)
    IN  IF f.k = "nan" \/ g.k = "nan" THEN h.k = "nan"
        ELSE IF IsFinite(f) /\ IsFinite(g)
             THEN Nearest(f.n * g.d + g.n * f.d, f.d * g.d, h)
        ELSE IF IsFinite(f) THEN h.k = g.k
        ELSE IF IsFinite(g) \/ f.k = g.k THEN h.k = f.k
        ELSE h.k = "nan"

IsQuotient(p, q, r) ==
    LET f == PyFloat(p)
        g == PyFloat(q)
    IN  /\ r.t = "float"
        /\ IF f.k = "nan" \/ g.k = "nan" THEN r.k = "nan"
           ELSE IF IsFinite(f) /\ IsFinite(g)
                THEN Nearest((IF g.n < 0 THEN -1 ELSE 1) * f.n * g.d, f.d * Abs(g.n), r)
           ELSE IF IsFinite(g)
                THEN r.k = (IF (f.k = "inf") = (g.n > 0) THEN "inf" ELSE "ninf")
           ELSE IF IsFinite(f) THEN IsZero(r)
           ELSE r.k = "nan"

\* C10: with a divisor that coerces to zero, div is +Infinity for a positive
\* dividend, -Infinity for a negative one and NaN for a zero or NaN one; div
\* never raises, and with any other divisor it is the quotient of the coerced
\* operands.
C10_DivZeroPolicy ==
    op = "js_div" =>
        LET p == js_to_number(a)
            q == js_to_number(b)
        IN  /\ res.t # "raise"
            /\ IF IsZeroNumber(q)
               THEN /\ NumGt0(p) => res = Inf
                    /\ NumLt0(p) => res = NegInf
                    /\ (IsZeroNumber(p) \/ IsNaNValue(p)) => res = NaN
               ELSE IsQuotient(p, q, res)

C10_NegativeOverNull ==
    /\ op = "js_div"
    /\ a = MkInt(-1)
    /\ b = None
    /\ res = NegInf

\* r is the remainder of the finite Number p by the finite non-zero Number q:
\* exactly p - q * trunc(p / q), which is zero or has the sign of p, and is
\* smaller in magnitude than q
IsRemainder(p, q, r) ==
    LET x == ToD(PyFloat(p))
        y == ToD(PyFloat(q))
        e == IF x.e < y.e THEN x.e ELSE y.e
        mx == BShl(x.m, x.e - e)
        my == BShl(y.m, y.e - e)
        rem == BDivMod(mx, my)[2]
        h == PyFloat(r)
        z == ToD(h)
        e2 == IF z.e < e THEN z.e ELSE e
    IN  /\ r.t \in {"int", "float"}
        /\ IsFinite(h)
        /\ IsZero(h) \/ IsNeg(h) = IsNeg(PyFloat(p))
        /\ BCmp(BShl(z.m, z.e - e2), BShl(my, e - e2)) < 0
        /\ IF rem = <<>> THEN IsZero(h)
           ELSE h = FromD(D(x.neg, rem, e))

\* C11: mod(a, b) of a finite a and a finite non-zero b is the truncating
\* remainder a - b * trunc(a / b): zero or of the sign of a, and smaller in
\* magnitude than b.  It is NaN when an operand is NaN, when b is zero and
\* when a is infinite; it is a when b is infinite and a is finite.
C11_ModIsTruncatingRemainder ==
    op = "js_mod" =>
        LET p == js_to_number(a)
            q == js_to_number(b)
        IN  IF IsNaNValue(p) \/ IsNaNValue(q) \/ IsZeroNumber(q) \/ isinf(p)
            THEN res = NaN
            ELSE IF isinf(q) THEN res = p
            ELSE IsRemainder(p, q, res)

\* one decimal digit or more and nothing else
PlainDigits(s) == s # <<>> /\ \A i \in 1..Len(s) : IsDigit(s[i])

\* the parts of the text s read as a decimal literal: the digits before the
\* point, the digits after it, the exponent, and whether it is in floating
\* form (a decimal point or an exponent marker)
LiteralParts(s) ==
    LET body == Unsigned(s)
        e == FirstIdx(body, {"e", "E"})
        mant == IF e = 0 THEN body ELSE SubSeq(body, 1, e - 1)
        p == FirstIdx(mant, {"."})
    IN  [ip |-> IF p = 0 THEN mant ELSE SubSeq(mant, 1, p - 1),
         fp |-> IF p = 0 THEN <<>> ELSE SubSeq(mant, p + 1, Len(mant)),
         ex |-> IF e = 0 THEN <<>> ELSE SubSeq(body, e + 1, Len(body)),
         point |-> p # 0,
         marker |-> e # 0]

\* s is a decimal integer or floating literal: an optional sign, digits with
\* an optional decimal point among them, an optional signed exponent
IsDecimalLiteral(s) ==
    LET l == LiteralParts(s)
    IN  /\ l.ip = <<>> \/ PlainDigits(l.ip)
        /\ l.fp = <<>> \/ PlainDigits(l.fp)
        /\ l.ip # <<>> \/ (l.point /\ l.fp # <<>>)
        /\ l.marker => PlainDigits(Unsigned(l.ex))

\* r is the value of the decimal literal s: the integer it writes, or in
\* floating form the float nearest to it
IsLiteralValue(s, r) ==
    LET l == LiteralParts(s)
        sign == IF Negative(s) THEN -1 ELSE 1
        num == DigitsValue(l.ip) * Pow10(Len(l.fp)) + DigitsValue(l.fp)
        den == Pow10(Len(l.fp))
        scale == Pow10(DigitsValue(Unsigned(l.ex)))
    IN  IF ~l.point /\ ~l.marker THEN r = MkInt(sign * num)
        ELSE /\ r.t = "float"
             /\ IF Negative(l.ex) THEN Nearest(sign * num, den * scale, r)
                ELSE Nearest(sign * num * scale, den, r)

\* C12: toNumber returns a Number: 0 for Null, NaN for Undefined, 1 and 0 for
\* true and false, a Number unchanged, 0 for a blank String, its value for a
\* String that is a decimal integer or floating literal between optional
\* whitespace, NaN for every other String and for every other variant.
C12_ToNumberByVariant ==
    op = "js_to_number" =>
        /\ Variant(res) = "Number"
        /\ CASE Variant(a) = "Null" -> res = MkInt(0)
             [] Variant(a) = "Undefined" -> IsNaNValue(res)
             [] Variant(a) = "Boolean" -> res = MkInt(IF a.v THEN 1 ELSE 0)
             [] Variant(a) = "Number" -> res = a
             [] Variant(a) = "String" ->
                    IF strip(a.s) = <<>> THEN res = MkInt(0)
                    ELSE IF IsDecimalLiteral(strip(a.s))
                         THEN IsLiteralValue(strip(a.s), res)
                    ELSE IsNaNValue(res)
             [] OTHER -> IsNaNValue(res)

\* the index the key of a deleteProperty on an Array resolves to, -1 when
\* it resolves to none: a Number with an integer value, or a String holding
\* a decimal integer
KeyIndex(key) ==
    IF Variant(key) = "Number" /\ ~IsNaNValue(key) /\ NumVal(key)[1] = "fin"
                               /\ NumVal(key)[3] = 1 /\ NumVal(key)[2] >= 0
    THEN NumVal(key)[2]
    ELSE IF Variant(key) = "String" /\ IsDecimalLiteral(strip(key.s))
                                    /\ PlainDigits(Unsigned(strip(key.s)))
                                    /\ ~Negative(strip(key.s))
    THEN DigitsValue(Unsigned(strip(key.s)))
    ELSE -1

\* C13: a deleteProperty on an Array keeps its length; when the key, a Number
\* or a String holding a decimal integer, resolves to an index in range, that
\* slot holds Undefined afterwards, every other slot is unchanged and the
\* call returns true.
C13_DeleteLeavesHole ==
    [][(op' = "js_delete" /\ Variant(a') = "Array")
        => LET old == heap[a'.ref].items
               new == heap'[a'.ref].items
               i == KeyIndex(b')
           IN  /\ Len(new) = Len(old)
               /\ (i >= 0 /\ i < Len(old))
                    => /\ new = [old EXCEPT ![i + 1] = JSUndefined]
                       /\ res' = True]_vars

\* the key k of an Object is the key asked for
IsKey(k, key) ==
    \/ k = key
    \/ Variant(k) = "Number" /\ Variant(key) = "Number" /\ SameNumber(k, key)

\* C14: deleteProperty returns true without raising and changes nothing when
\* the key of an Array is out of range or not numeric, and when the base is
\* no container; on an Object it removes the key if it is present, the other
\* keys keeping their order, and changes nothing otherwise.
C14_DeleteNoOps ==
    [][op' = "js_delete"
        => /\ res' = True
           /\ CASE Variant(a') = "Array" ->
                     KeyIndex(b') \notin 0..(Len(heap[a'.ref].items) - 1) => heap' = heap
                [] Variant(a') = "Object" ->
                     LET old == heap[a'.ref]
                         new == heap'[a'.ref]
                         keep == {i \in 1..Len(old.keys) : ~IsKey(old.keys[i], b')}
                     IN  /\ new.keys = SelectSeq(old.keys, LAMBDA k : ~IsKey(k, b'))
                         /\ Len(new.vals) = Len(new.keys)
                         /\ keep = 1..Len(old.keys) => heap' = heap
                [] OTHER -> heap' = heap]_vars

\* the keys of the value v in the heap h, as enumerateKeys is specified: the
\* keys of an Object in insertion order and in string form, the indices of
\* the slots of an Array that are no holes, the indices of a String
KeysOf(v, h) ==
    CASE Variant(v) = "Object" ->
            [i \in 1..Len(h[v.ref].keys) |-> MkStr(Display(h[v.ref].keys[i]))]
      [] Variant(v) = "Array" ->
            LET items == h[v.ref].items
                full == SelectSeq([i \in 1..Len(items) |-> i - 1],
                                  LAMBDA j : items[j + 1] # JSUndefined)
            IN  [i \in 1..Len(full) |-> MkStr(IntStr(full[i]))]
      [] Variant(v) = "String" -> [i \in 1..Len(v.s) |-> MkStr(IntStr(i - 1))]
      [] OTHER -> <<>>

C16_EnumerationUnaffectedByMutation ==
    gen.pc = "done"
        => /\ out = KeysOf(gen.obj, gen.heap0)
           /\ op = "next" => res = Raise("StopIteration")

\* C17: compilePattern raises the unsupported-configuration error when a
\* character of flags is none of g, i, m, s, and otherwise returns (for a
\* pattern that compiles) a compiled pattern carrying exactly the modifiers
\* of the flags i, m, s present.
C17_OnlyKnownFlagsCompile ==
    op = "compile_js_regex" =>
        IF \E i \in 1..Len(b.s) : b.s[i] \notin {"g", "i", "m", "s"}
        THEN res = Raise("ValueError")
        ELSE res.t # "raise" =>
                /\ res.t = "Pattern"
                /\ res.flags \cap {"IGNORECASE", "MULTILINE", "DOTALL"}
                     = {IF x = "i" THEN "IGNORECASE" ELSE IF x = "m" THEN "MULTILINE" ELSE "DOTALL" :
                            x \in {b.s[i] : i \in 1..Len(b.s)} \ {"g"}}

\* the sign of n - j/2 for the finite float n = (-1)^neg * m * 2^e and the
\* integer j, exactly
CmpHalves(x, j) ==
    LET xs == IF x.m = <<>> THEN 0 ELSE IF x.neg THEN -1 ELSE 1
        js == IF j = 0 THEN 0 ELSE IF j < 0 THEN -1 ELSE 1
        c == IF x.e + 1 >= 0 THEN BCmp(BShl(x.m, x.e + 1), BFromInt(Abs(j)))
             ELSE BCmp(x.m, BShl(BFromInt(Abs(j)), -(x.e + 1)))
    IN  IF xs # js THEN (IF xs < js THEN -1 ELSE 1) ELSE xs * c

\* C18: round(n) of a finite Number n is the integer k nearest to it, a half
\* going up: n - 0.5 < k <= n + 0.5 (so round(k) = k for an integer k); NaN
\* and the infinities are returned unchanged.
C18_RoundIsNearestHalfUp ==
    op = "js_round" =>
        IF IsNaNValue(a) \/ isinf(a) THEN res = a
        ELSE /\ res.t = "int"
             /\ CmpHalves(ToD(PyFloat(a)), 2 * res.v - 1) >= 0
             /\ CmpHalves(ToD(PyFloat(a)), 2 * res.v + 1) < 0

\* the integer a Number that is neither NaN nor infinite is coerced to: its
\* fraction dropped
Coerced(x) ==
    LET v == NumVal(x)
    IN  IF v[2] < 0 THEN -((-v[2]) \div v[3]) ELSE v[2] \div v[3]

\* the code units of the characters that occur
CodeUnit(ch) == CASE ch = "a" -> 97 [] ch = "b" -> 98 [] ch = "c" -> 99

\* C19: charCodeAt(s, i) is the code unit of s at the integer-coerced index
\* when that lies in [0, length), and NaN, without raising, for every other
\* Number i: NaN, the infinities, a negative index, an index >= length.
C19_CharCodeAtOrNaN ==
    op = "js_char_code_at" =>
        IF IsNaNValue(b) \/ isinf(b) THEN IsNaNValue(res)
        ELSE IF Coerced(b) \in 0..(Len(a.s) - 1)
             THEN /\ Variant(res) = "Number"
                  /\ SameNumber(res, MkInt(CodeUnit(a.s[Coerced(b) + 1])))
        ELSE IsNaNValue(res)

\* a bound of substring on a String of length len: absent is len, NaN is 0,
\* anything else is clamped to [0, len]
Bound(x, len, absent) ==
    IF absent THEN len
    ELSE IF IsNaNValue(x) THEN 0
    ELSE IF NumVal(x)[1] = "inf" THEN len
    ELSE IF NumVal(x)[1] = "ninf" THEN 0
    ELSE IF Coerced(x) > len THEN len
    ELSE IF Coerced(x) < 0 THEN 0
    ELSE Coerced(x)

\* C20: substring(s, start, end) never raises and is s from the smaller up to
\* but excluding the larger of its two bounds, each with NaN replaced by 0
\* and clamped to [0, length], an absent end (Null or Undefined) counting as
\* length; so the order of the bounds does not matter.
C20_SubstringClampsAndSwaps ==
    op = "js_substring" =>
        LET cs == Bound(b, Len(a.s), FALSE)
            ce == Bound(third, Len(a.s), Variant(third) \in {"Null", "Undefined"})
        IN  res = MkStr(SubSeq(a.s, (IF cs < ce THEN cs ELSE ce) + 1,
                                    IF cs < ce THEN ce ELSE cs))

\* C21: arrayPop on a non-empty Array returns the element that was last and
\* leaves the others in place, the Array one shorter; on an empty Array it
\* returns Undefined and leaves it empty.  No deleteProperty and no other
\* step changes the length, so the length is the initial one minus the
\* number of arrayPop calls made on a non-empty Array.
C21_PopTakesTheLast ==
    [][Variant(Ref(heap, 1)) = "Array"
        => LET old == heap[1].items
               new == heap'[1].items
           IN  IF op' = "js_array_pop"
               THEN IF old # <<>>
                    THEN /\ res' = old[Len(old)]
                         /\ new = SubSeq(old, 1, Len(old) - 1)
                         /\ Len(new) = Len(old) - 1
                    ELSE /\ res' = JSUndefined
                         /\ new = <<>>
               ELSE Len(new) = Len(old)]_vars

\* the last element has been popped off an array whose second slot is a hole
C21_PoppedAfterHole ==
    /\ op = "js_array_pop"
    /\ res = MkInt(2)
    /\ heap[1] = [kind |-> "list", items |-> <<MkInt(1), JSUndefined>>]

\* C22: typeOf(v) is "undefined" for Undefined only, "object" for Null and
\* every Object and Array, "boolean" for a Boolean, "number" for every Number
\* (NaN and the infinities too), "string" for every String, "function" for
\* every Function.
C22_TypeOfByVariant ==
    op = "js_typeof" =>
        res = MkStr(CASE Variant(a) = "Undefined" -> <<"u", "n", "d", "e", "f", "i", "n", "e", "d">>
                      [] Variant(a) \in {"Null", "Object", "Array"} -> <<"o", "b", "j", "e", "c", "t">>
                      [] Variant(a) = "Boolean" -> <<"b", "o", "o", "l", "e", "a", "n">>
                      [] Variant(a) = "Number" -> <<"n", "u", "m", "b", "e", "r">>
                      [] Variant(a) = "String" -> <<"s", "t", "r", "i", "n", "g">>
                      [] Variant(a) = "Function" -> <<"f", "u", "n", "c", "t", "i", "o", "n">>)

\* typeOf of a Boolean is not "number"
C22_TrueIsBoolean ==
    /\ op = "js_typeof"
    /\ a = True
    /\ res = MkStr(<<"b", "o", "o", "l", "e", "a", "n">>)

\* the calls of js_array_pop that have taken an element off the list
Took == {t \in DOMAIN frames : frames[t].pc = "done" /\ frames[t].slot > 0}

\* C23: when several threads call arrayPop on one Array, under every
\* interleaving of their steps no call fails with an error, a call that took
\* nothing returns Undefined, no slot's element is returned to two callers,
\* and each step leaves the length plus the number of calls that took an
\* element what it was.
C23_ConcurrentPopSafe ==
    /\ [](\A t \in DOMAIN frames :
            frames[t].pc = "done"
                => /\ frames[t].res.t # "raise"
                   /\ frames[t].slot = 0 => frames[t].res = JSUndefined
                   /\ \A u \in DOMAIN frames \ {t} :
                        (frames[u].pc = "done" /\ frames[t].slot > 0)
                            => frames[u].slot # frames[t].slot)
    /\ [][Len(heap'[1].items) + Cardinality(Took')
            = Len(heap[1].items) + Cardinality(Took)]_vars

\* C24: on operands that are neither an Object nor an Array, looseEqual
\* returns a boolean after converting each Boolean operand at most once, gives
\* the same answer with the operands exchanged, and looseNotEqual returns the
\* opposite boolean.
C24_LooseEqSymmetricTotal ==
    (Variant(a) \notin {"Object", "Array"} /\ Variant(b) \notin {"Object", "Array"})
        => /\ op = "js_loose_eq"
                => /\ res \in {True, False}
                   /\ res = js_loose_eq(b, a)
                   /\ js_loose_eq_depth(a, b)
                        <= Cardinality({i \in 1..2 : Variant(<<a, b>>[i]) = "Boolean"})
           /\ op = "js_loose_neq"
                => /\ res \in {True, False}
                   /\ res = MkBool(~js_loose_eq(a, b).v)
                   /\ res = js_loose_neq(b, a)

\* a Number against the Boolean it equals, the Boolean on the right
C24_OneEqualsTrue ==
    /\ op = "js_loose_eq"
    /\ a = MkInt(1)
    /\ b = True
    /\ res = True

=============================================================================
